---- MODULE Spec2Model ----
(***************************************************************************)
(* Proof-of-work difficulty engine of digitalcoin (src/src/pow.cpp).       *)
(*                                                                         *)
(* Every function of pow.cpp is a pure computation over the previous-block *)
(* chain, the network parameters and its arguments.  The state of the      *)
(* model is one call: the inputs it is made with (drawn in Init), the      *)
(* position of the call (pc) and what it returned (ret).                   *)
(*                                                                         *)
(* A uint256 is the sequence of its NBYTES bytes, least significant first, *)
(* so the arithmetic is exact and wraps modulo 2^256 as base_uint does.    *)
(***************************************************************************)
EXTENDS Integers, Sequences, FiniteSets, TLC

VARIABLES
    op,          \* the function of pow.cpp that is called
    net,         \* Params().NetworkID()
    chain,       \* the block index: chain[i] is the block of height i-1,
                 \* its pprev is chain[i-1]; pindexLast is the last element
                 \* and the empty chain is pindexLast = NULL
    algo,        \* the algo argument
    hash,        \* CheckProofOfWork's hash (a uint256)
    nBits,       \* the nBits argument (a compact value)
    nBase,       \* CheckMinWork's nBase; the second nBits of GetProofIncrement
    deltaTime,   \* CheckMinWork's deltaTime
    pc,          \* "call" before the function runs, then how it ended
    ret          \* what the calls returned so far, in order

vars == <<op, net, chain, algo, hash, nBits, nBase, deltaTime, pc, ret>>

(***************************************************************************)
(* uint256: fixed-width unsigned arithmetic (uint256.h, spec 4.1).         *)
(***************************************************************************)
NBYTES == 32

Bytes == 1..NBYTES

Pow2(n) == CASE n = 0 -> 1 [] n = 1 -> 2 [] n = 2 -> 4 [] n = 3 -> 8
             [] n = 4 -> 16 [] n = 5 -> 32 [] n = 6 -> 64 [] n = 7 -> 128

\* uint256(n) for an n below 2^31
Uint256(n) ==
    [i \in Bytes |-> CASE i = 1 -> n % 256
                       [] i = 2 -> (n \div 256) % 256
                       [] i = 3 -> (n \div 65536) % 256
                       [] i = 4 -> (n \div 16777216) % 256
                       [] OTHER -> 0]

\* base_uint::CompareTo: the most significant byte that differs decides
CompareTo(a, b) ==
    LET diff == {i \in Bytes : a[i] # b[i]}
    IN  IF diff = {} THEN 0
        ELSE LET top == CHOOSE i \in diff : \A j \in diff : j <= i
             IN  IF a[top] < b[top] THEN -1 ELSE 1

Less(a, b) == CompareTo(a, b) < 0

LessEq(a, b) == CompareTo(a, b) <= 0

Greater(a, b) == CompareTo(a, b) > 0

IsZero(a) == \A i \in Bytes : a[i] = 0

\* number of significant bytes: (bits() + 7) / 8
ByteSize(a) ==
    LET used == {i \in Bytes : a[i] # 0}
    IN  IF used = {} THEN 0 ELSE CHOOSE i \in used : \A j \in used : j <= i

RECURSIVE BitLen(_)
BitLen(n) == IF n = 0 THEN 0 ELSE 1 + BitLen(n \div 2)

\* base_uint::bits
Bits(a) ==
    LET s == ByteSize(a) IN IF s = 0 THEN 0 ELSE 8 * (s - 1) + BitLen(a[s])

\* A loop over the bytes of a number keeps the position i, the carry and the
\* bytes written so far; it is run four turns at a time, a turn after the
\* last changing nothing.

\* one turn of operator*=(uint32_t), from the least significant byte up
MulStep(st, a, k) ==
    IF st.i > NBYTES THEN st
    ELSE LET n == a[st.i] * k + st.carry
         IN  [i |-> st.i + 1, carry |-> n \div 256, out |-> Append(st.out, n % 256)]

RECURSIVE MulLoop(_, _, _)
MulLoop(st, a, k) ==
    IF st.i > NBYTES THEN st.out
    ELSE MulLoop(MulStep(MulStep(MulStep(MulStep(st, a, k), a, k), a, k), a, k), a, k)

\* operator*=(uint32_t): the carry out of the top byte is dropped
MulSmall(a, k) == MulLoop([i |-> 1, carry |-> 0, out |-> <<>>], a, k)

\* one turn of the division by a small integer, from the most significant
\* byte down
DivSmallStep(st, a, d) ==
    IF st.i < 1 THEN st
    ELSE LET n == st.carry * 256 + a[st.i]
         IN  [i |-> st.i - 1, carry |-> n % d, out |-> <<n \div d>> \o st.out]

RECURSIVE DivSmallLoop(_, _, _)
DivSmallLoop(st, a, d) ==
    IF st.i < 1 THEN st.out
    ELSE DivSmallLoop(DivSmallStep(DivSmallStep(DivSmallStep(DivSmallStep(
                          st, a, d), a, d), a, d), a, d), a, d)

\* operator/= by a small positive integer: truncating division
DivSmall(a, d) == DivSmallLoop([i |-> NBYTES, carry |-> 0, out |-> <<>>], a, d)

\* operator<<= by a whole number of bytes
ShlBytes(a, n) == [i \in Bytes |-> IF i - n >= 1 THEN a[i - n] ELSE 0]

\* operator<<= by any number of bits
ShlBits(a, n) == MulSmall(ShlBytes(a, n \div 8), Pow2(n % 8))

\* operator>>= by any number of bits
ShrBits(a, n) ==
    DivSmall([i \in Bytes |-> IF i + (n \div 8) <= NBYTES THEN a[i + (n \div 8)] ELSE 0],
             Pow2(n % 8))

\* operator~
Not(a) == [i \in Bytes |-> 255 - a[i]]

\* one turn of operator+=
AddStep(st, a, b) ==
    IF st.i > NBYTES THEN st
    ELSE LET n == a[st.i] + b[st.i] + st.carry
         IN  [i |-> st.i + 1, carry |-> n \div 256, out |-> Append(st.out, n % 256)]

RECURSIVE AddLoop(_, _, _)
AddLoop(st, a, b) ==
    IF st.i > NBYTES THEN st.out
    ELSE AddLoop(AddStep(AddStep(AddStep(AddStep(st, a, b), a, b), a, b), a, b), a, b)

\* operator+, modulo 2^256
Add(a, b) == AddLoop([i |-> 1, carry |-> 0, out |-> <<>>], a, b)

\* operator-, modulo 2^256: a + ~b + 1
Sub(a, b) == AddLoop([i |-> 1, carry |-> 1, out |-> <<>>], a, Not(b))

SetBit(q, s) == [q EXCEPT ![(s \div 8) + 1] = @ + Pow2(s % 8)]

\* one turn of the loop of operator/=(const base_uint&): div was aligned
\* with num and is shifted back one bit at a time, a bit of the quotient
\* being set at each subtraction; a turn after the last changes nothing
DivStep(st) ==
    IF st.shift < 0 THEN st
    ELSE IF LessEq(st.div, st.num)
         THEN [num |-> Sub(st.num, st.div), div |-> DivSmall(st.div, 2),
               shift |-> st.shift - 1, quot |-> SetBit(st.quot, st.shift)]
         ELSE [st EXCEPT !.div = DivSmall(st.div, 2), !.shift = st.shift - 1]

\* the loop, eight turns at a time
RECURSIVE DivLoop(_)
DivLoop(st) ==
    IF st.shift < 0 THEN st.quot
    ELSE DivLoop(DivStep(DivStep(DivStep(DivStep(
                 DivStep(DivStep(DivStep(DivStep(st)))))))))

\* operator/=(const base_uint&), for a divisor that is not zero
Div(a, b) ==
    IF Bits(b) > Bits(a) THEN Uint256(0)
    ELSE LET shift == Bits(a) - Bits(b)
         IN  DivLoop([num |-> a, div |-> ShlBits(b, shift), shift |-> shift,
                      quot |-> Uint256(0)])

(***************************************************************************)
(* Compact target codec (uint256::SetCompact / GetCompact, spec 4.2).      *)
(* A compact value is nSize * 2^24 + mantissa, the mantissa's top bit      *)
(* being the sign.                                                         *)
(***************************************************************************)
CompactSize(nCompact) == nCompact \div 16777216

CompactWord(nCompact) == nCompact % 8388608

\* the target SetCompact stores
SetCompact(nCompact) ==
    LET nSize == CompactSize(nCompact)
        nWord == CompactWord(nCompact)
    IN  IF nSize <= 3
        THEN Uint256(CASE nSize = 3 -> nWord
                       [] nSize = 2 -> nWord \div 256
                       [] nSize = 1 -> nWord \div 65536
                       [] nSize = 0 -> 0)
        ELSE ShlBytes(Uint256(nWord), nSize - 3)

\* *pfNegative
CompactNegative(nCompact) == (nCompact \div 8388608) % 2 = 1

\* *pfOverflow
CompactOverflow(nCompact) ==
    LET nSize == CompactSize(nCompact)
        nWord == CompactWord(nCompact)
    IN  nWord # 0 /\ (\/ nSize > NBYTES + 2
                      \/ (nWord > 255 /\ nSize > NBYTES + 1)
                      \/ (nWord > 65535 /\ nSize > NBYTES))

\* GetCompact()
GetCompact(a) ==
    LET nSize == ByteSize(a)
        word == IF nSize <= 3
                THEN CASE nSize = 3 -> a[3] * 65536 + a[2] * 256 + a[1]
                       [] nSize = 2 -> (a[2] * 256 + a[1]) * 256
                       [] nSize = 1 -> a[1] * 65536
                       [] nSize = 0 -> 0
                ELSE a[nSize] * 65536 + a[nSize - 1] * 256 + a[nSize - 2]
    IN  IF word >= 8388608
        THEN (nSize + 1) * 16777216 + (word \div 256)
        ELSE nSize * 16777216 + word

(***************************************************************************)
(* Network parameters (chainparams.h, main.h; spec 3 and 6).               *)
(***************************************************************************)
\* CBaseChainParams::Network
MAIN == 0

TESTNET == 1

REGTEST == 2

Networks == {MAIN, TESTNET, REGTEST}

NUM_ALGOS == 3

ALGO_SCRYPT == 0

ALGO_SHA256D == 1

ALGO_X11 == 2

Algos == 0..(NUM_ALGOS - 1)

\* fork-activation heights
DIFF_SWITCH_HEIGHT == 22

INFLATION_FIX_HEIGHT == 24

DIFF2_SWITCH_HEIGHT == 28

V3_FORK == 32

\* Params().ProofOfWorkLimit(algo): the easiest target of the algorithm
ProofOfWorkLimit(a) ==
    IF net = REGTEST THEN ShrBits(Not(Uint256(0)), 1)
    ELSE IF a = ALGO_SHA256D THEN ShrBits(Not(Uint256(0)), 32)
    ELSE ShrBits(Not(Uint256(0)), 20)

\* Params().TargetSpacing()
TargetSpacing == 40

\* Params().TargetTimespan()
TargetTimespan == 80

\* Params().AllowMinDifficultyBlocks()
AllowMinDifficultyBlocks == net = TESTNET

(***************************************************************************)
(* The block index (CBlockIndex, main.h; spec 3 and 6).  A pointer to a    *)
(* block is its position in chain, NULL is 0.                              *)
(***************************************************************************)
NULL == 0

\* the block reached from pindex by n pprev links (the pprev of chain[i] is
\* chain[i-1]), NULL once the walk runs off the chain
Ancestor(pindex, n) == IF pindex - n >= 1 THEN pindex - n ELSE NULL

\* GetLastBlockIndexForAlgo: the nearest block at or before pindex mined
\* with algo a, NULL when there is none
GetLastBlockIndexForAlgo(pindex, a) ==
    LET mined == {i \in 1..pindex : chain[i].nAlgo = a}
    IN  IF mined = {} THEN NULL ELSE CHOOSE i \in mined : \A j \in mined : j <= i

(***************************************************************************)
(* pow.cpp                                                                 *)
(***************************************************************************)
multiAlgoTargetTimespan == 120

multiAlgoTargetSpacing == 120

nAveragingInterval == 10

nAveragingTargetTimespan == nAveragingInterval * multiAlgoTargetSpacing

nMaxAdjustDown == 40

nMaxAdjustUp == 20

nLocalDifficultyAdjustment == 40

nMinActualTimespan == (nAveragingTargetTimespan * (100 - nMaxAdjustUp)) \div 100

nMaxActualTimespan == (nAveragingTargetTimespan * (100 + nMaxAdjustDown)) \div 100

\* int64_t division truncates toward zero
TruncDiv(a, b) == IF a >= 0 THEN a \div b ELSE -((-a) \div b)

\* the outcome of a call: how it ended and the value the caller received
Returned(v) == [end |-> "returned", value |-> v]

\* a crash of the process (a NULL block dereferenced)
Crashed == [end |-> "crashed", value |-> 0]

\* an assert that failed
Aborted == [end |-> "aborted", value |-> 0]

\* control flowed off the end of a function that returns a value: the caller
\* receives whatever the return register holds
NoReturn(v) == [end |-> "no_return", value |-> v]

\* bnLimit of CheckMinWork: the proof-of-work ceiling the loop runs up to
bnLimit == ProofOfWorkLimit(ALGO_SCRYPT)

\* the while loop of CheckMinWork
RECURSIVE MinWorkLoop(_, _)
MinWorkLoop(bnResult, dt) ==
    IF dt > 0 /\ Less(bnResult, bnLimit)
    THEN MinWorkLoop(MulSmall(bnResult, 4), dt - TargetTimespan * 4)
    ELSE bnResult

\* CheckMinWork with the final clamp to the ceiling left out
CheckMinWorkNoClamp(bits, base, dt) ==
    LET bnNewBlock == SetCompact(bits)
    IN  IF CompactOverflow(bits) THEN FALSE
        ELSE IF AllowMinDifficultyBlocks /\ dt > TargetSpacing * 2
        THEN LessEq(bnNewBlock, bnLimit)
        ELSE LessEq(bnNewBlock, MinWorkLoop(SetCompact(base), dt))

CheckMinWork(bits, base, dt) ==
    LET bnNewBlock == SetCompact(bits)
        bnProofOfWorkLimit == ProofOfWorkLimit(ALGO_SCRYPT)
    IN  IF CompactOverflow(bits) THEN FALSE
        ELSE IF AllowMinDifficultyBlocks /\ dt > TargetSpacing * 2
        THEN LessEq(bnNewBlock, bnLimit)
        ELSE LET bnResult == MinWorkLoop(SetCompact(base), dt)
             IN  IF Greater(bnResult, bnProofOfWorkLimit)
                 THEN LessEq(bnNewBlock, bnProofOfWorkLimit)
                 ELSE LessEq(bnNewBlock, bnResult)

\* GetProofIncrement with the test of fNegative left out
GetProofIncrementNoSign(bits) ==
    LET bnTarget == SetCompact(bits)
    IN  IF CompactOverflow(bits) \/ IsZero(bnTarget)
        THEN Uint256(0)
        ELSE Add(Div(Not(bnTarget), Add(bnTarget, Uint256(1))), Uint256(1))

GetProofIncrement(bits) ==
    LET bnTarget == SetCompact(bits)
    IN  IF CompactNegative(bits) \/ CompactOverflow(bits) \/ IsZero(bnTarget)
        THEN Uint256(0)
        ELSE Add(Div(Not(bnTarget), Add(bnTarget, Uint256(1))), Uint256(1))

\* CheckProofOfWork with the comparison against the ceiling left out
CheckProofOfWorkNoLimit(h, bits, a) ==
    LET bnTarget == SetCompact(bits)
    IN  IF CompactNegative(bits) \/ IsZero(bnTarget) \/ CompactOverflow(bits)
        THEN FALSE
        ELSE ~Greater(h, bnTarget)

CheckProofOfWork(h, bits, a) ==
    LET bnTarget == SetCompact(bits)
    IN  IF \/ CompactNegative(bits)
           \/ IsZero(bnTarget)
           \/ CompactOverflow(bits)
           \/ Greater(bnTarget, ProofOfWorkLimit(a))
        THEN FALSE
        ELSE IF Greater(h, bnTarget) THEN FALSE
        ELSE TRUE

(***************************************************************************)
(* GetNextWorkRequiredV1                                                   *)
(***************************************************************************)
\* nTargetTimespanCurrent at the height of the next block
V1TargetTimespanCurrent(nHeight) ==
    IF nHeight >= INFLATION_FIX_HEIGHT THEN TargetTimespan ELSE TargetTimespan * 5

\* nInterval with the halving of the spacing before the inflation fix left out
V1IntervalNoHalving(nHeight) ==
    V1TargetTimespanCurrent(nHeight) \div TargetSpacing

\* nInterval at the height of the next block
V1Interval(nHeight) ==
    IF nHeight >= INFLATION_FIX_HEIGHT
    THEN V1TargetTimespanCurrent(nHeight) \div TargetSpacing
    ELSE V1TargetTimespanCurrent(nHeight) \div (TargetSpacing \div 2)

\* nActualTimespan after "Limit adjustment step"
V1LimitTimespan(nActualTimespan, nHeight) ==
    LET cur == V1TargetTimespanCurrent(nHeight)
        fNewDifficultyProtocol == nHeight >= DIFF_SWITCH_HEIGHT
        fDifficultySwitchHeightTwo == nHeight >= DIFF2_SWITCH_HEIGHT
        nActualTimespanMax ==
            IF fDifficultySwitchHeightTwo THEN (cur * 75) \div 60
            ELSE IF fNewDifficultyProtocol THEN cur * 2 ELSE cur * 4
        nActualTimespanMin ==
            IF fDifficultySwitchHeightTwo THEN (cur * 55) \div 73
            ELSE IF fNewDifficultyProtocol THEN cur \div 2 ELSE cur \div 4
        low == IF nActualTimespan < nActualTimespanMin
               THEN nActualTimespanMin ELSE nActualTimespan
    IN  IF low > nActualTimespanMax THEN nActualTimespanMax ELSE low

\* the retargeted value returned as computed, never cut down to the ceiling
V1ClampMissing(bnNew, a) == bnNew

\* the cut to the ceiling that ends the retarget of V1
V1Clamp(bnNew, a) ==
    IF Greater(bnNew, ProofOfWorkLimit(a)) THEN ProofOfWorkLimit(a) ELSE bnNew

\* "Retarget": the new compact target from the window pindexFirst..pindexLast
V1Retarget(pindexLast, pindexFirst, a) ==
    LET nHeight == chain[pindexLast].nHeight + 1
        nActualTimespan ==
            V1LimitTimespan(chain[pindexLast].nTime - chain[pindexFirst].nTime,
                            nHeight)
        bnNew == DivSmall(MulSmall(SetCompact(chain[pindexLast].nBits),
                                   nActualTimespan),
                          V1TargetTimespanCurrent(nHeight))
    IN  GetCompact(V1Clamp(bnNew, a))

\* The outcomes of GetNextWorkRequiredV1(pindexLast, pblock, algo).
\* pindexLast->nHeight is read before pindexLast is compared with NULL:
\* with no previous block the read is undefined, the process crashes on it
\* or the build has dropped or delayed it and the genesis check follows.
GetNextWorkRequiredV1(pindexLast, a) ==
    LET nProofOfWorkLimit == GetCompact(ProofOfWorkLimit(a))
    IN  IF pindexLast = NULL THEN {Crashed, Returned(nProofOfWorkLimit)}
        ELSE
        LET nHeight == chain[pindexLast].nHeight + 1
            nInterval == V1Interval(nHeight)
            blockstogoback ==
                IF chain[pindexLast].nHeight + 1 # nInterval
                THEN nInterval ELSE nInterval - 1
            pindexFirst == Ancestor(pindexLast, blockstogoback)
        IN  IF net = TESTNET THEN {Returned(nProofOfWorkLimit)}
            ELSE IF (chain[pindexLast].nHeight + 1) % nInterval # 0
            THEN {Returned(chain[pindexLast].nBits)}
            ELSE IF pindexFirst = NULL THEN {Aborted}
            ELSE {Returned(V1Retarget(pindexLast, pindexFirst, a))}

(***************************************************************************)
(* GetNextWorkRequiredV2                                                   *)
(***************************************************************************)
\* the walk back that forgets the factor NUM_ALGOS
V2FirstOneAlgo(pindexLast) == Ancestor(pindexLast, nAveragingInterval)

\* pindexFirst: NUM_ALGOS * nAveragingInterval pprev links back
V2First(pindexLast) == Ancestor(pindexLast, NUM_ALGOS * nAveragingInterval)

\* nActualTimespan after "Limit adjustment step"
V2LimitTimespan(pindexLast, pindexFirst) ==
    LET span == chain[pindexLast].nMedianTime - chain[pindexFirst].nMedianTime
        damped == nAveragingTargetTimespan
                    + TruncDiv(span - nAveragingTargetTimespan, 6)
        low == IF damped < nMinActualTimespan THEN nMinActualTimespan ELSE damped
    IN  IF low > nMaxActualTimespan THEN nMaxActualTimespan ELSE low

\* "Global retarget"
V2Global(pindexPrevAlgo, nActualTimespan) ==
    DivSmall(MulSmall(SetCompact(chain[pindexPrevAlgo].nBits), nActualTimespan),
             nAveragingTargetTimespan)

\* one turn of the loop of nAdjustments > 0
V2TightenStep(st) ==
    IF st.i >= st.n THEN st
    ELSE [st EXCEPT !.i = @ + 1,
                    !.bnNew = MulSmall(DivSmall(@, 100 + nLocalDifficultyAdjustment), 100)]

\* one turn of the loop of nAdjustments < 0
V2LoosenStep(st) ==
    IF st.i >= st.n THEN st
    ELSE [st EXCEPT !.i = @ + 1,
                    !.bnNew = DivSmall(MulSmall(@, 100 + nLocalDifficultyAdjustment), 100)]

RECURSIVE V2TightenLoop(_)
V2TightenLoop(st) ==
    IF st.i >= st.n THEN st.bnNew
    ELSE V2TightenLoop(V2TightenStep(V2TightenStep(V2TightenStep(V2TightenStep(st)))))

RECURSIVE V2LoosenLoop(_)
V2LoosenLoop(st) ==
    IF st.i >= st.n THEN st.bnNew
    ELSE V2LoosenLoop(V2LoosenStep(V2LoosenStep(V2LoosenStep(V2LoosenStep(st)))))

\* for (i = 0; i < nAdjustments; i++)
V2Tighten(bnNew, n) == V2TightenLoop([i |-> 0, n |-> n, bnNew |-> bnNew])

\* for (i = 0; i < -nAdjustments; i++)
V2Loosen(bnNew, n) == V2LoosenLoop([i |-> 0, n |-> n, bnNew |-> bnNew])

\* nAdjustments
V2Adjustments(pindexLast, pindexPrevAlgo) ==
    chain[pindexPrevAlgo].nHeight - chain[pindexLast].nHeight + NUM_ALGOS - 1

\* "Per-algo retarget"
V2PerAlgo(bnNew, nAdjustments) ==
    IF nAdjustments > 0 THEN V2Tighten(bnNew, nAdjustments)
    ELSE IF nAdjustments < 0 THEN V2Loosen(bnNew, -nAdjustments)
    ELSE bnNew

\* the retargeted value returned as computed, never cut down to the ceiling
V2ClampMissing(bnNew, a) == bnNew

\* the cut to the ceiling that ends V2
V2Clamp(bnNew, a) ==
    IF Greater(bnNew, ProofOfWorkLimit(a)) THEN ProofOfWorkLimit(a) ELSE bnNew

\* The outcomes of GetNextWorkRequiredV2(pindexLast, pblock, algo)
GetNextWorkRequiredV2(pindexLast, a) ==
    LET nProofOfWorkLimit == GetCompact(ProofOfWorkLimit(a))
        pindexFirst == V2First(pindexLast)
        pindexPrevAlgo == GetLastBlockIndexForAlgo(pindexLast, a)
    IN  IF pindexLast = NULL THEN {Returned(nProofOfWorkLimit)}
        ELSE IF pindexPrevAlgo = NULL \/ pindexFirst = NULL
        THEN {Returned(nProofOfWorkLimit)}
        ELSE LET bnNew == V2PerAlgo(
                            V2Global(pindexPrevAlgo,
                                     V2LimitTimespan(pindexLast, pindexFirst)),
                            V2Adjustments(pindexLast, pindexPrevAlgo))
             IN  {Returned(GetCompact(V2Clamp(bnNew, a)))}

(***************************************************************************)
(* GetNextWorkRequired                                                     *)
(***************************************************************************)
\* the fixed target of the test network
TestnetFixedBits == 487849964

\* operator ! on a network id
LogicalNot(x) == IF x = 0 THEN 1 ELSE 0

\* what the return register may hold when no return statement ran
GarbageBits == {0, TestnetFixedBits}

\* the heights a read through a NULL pindexLast may yield
GarbageHeights == {0, V3_FORK}

\* the if / else if chain, for the nHeight that was read
DispatchOn(nHeight, pindexLast, a) ==
    IF net = TESTNET THEN {Returned(TestnetFixedBits)}
    ELSE IF LogicalNot(net) = TESTNET /\ nHeight < V3_FORK
    THEN GetNextWorkRequiredV1(pindexLast, a)
    ELSE IF LogicalNot(net) = TESTNET /\ nHeight >= V3_FORK
    THEN GetNextWorkRequiredV2(pindexLast, a)
    ELSE {NoReturn(g) : g \in GarbageBits}

\* The outcomes of GetNextWorkRequired(pindexLast, pblock, algo).  With no
\* previous block the read of pindexLast->nHeight is undefined.
GetNextWorkRequired(pindexLast, a) ==
    IF pindexLast = NULL
    THEN {Crashed} \cup UNION {DispatchOn(h, pindexLast, a) : h \in GarbageHeights}
    ELSE DispatchOn(chain[pindexLast].nHeight, pindexLast, a)

(***************************************************************************)
(* The inputs of a call.                                                   *)
(***************************************************************************)
\* the longest chain a call is made on
MaxChainLen == 36

\* how far behind the tip the last block of the scrypt track may lie, for
\* the chains whose scrypt track is kept up to date
MaxGap == 3

\* recorded nBits: the ceiling of scrypt on MAIN (0x1e0fffff), a harder
\* target (0x1d00ffff), a target above that ceiling (0x2000ffff), target 1
\* (0x01010000), a target just below that ceiling (0x1e0f0000)
BitsCycle == <<504365055, 486604799, 536936447, 16842752, 504299520>>

\* seconds between two blocks of a chain
Spacings == {0, 17, 40, 60, 2000}

\* seconds by which the tip of a chain is later than its spacing says
Skews == {0, 10}

\* the algorithm of the block of height h, on a chain whose last scrypt
\* block has height lastH (none when lastH < 0): the three algorithms take
\* turns up to lastH, the other two after it
AlgoAt(h, lastH) ==
    IF h <= lastH THEN (lastH - h) % NUM_ALGOS ELSE 1 + (h % 2)

\* a chain of len blocks from the genesis block on: heights count from 0,
\* timestamps dt apart and the tip skew later, the median time past five
\* blocks behind, the recorded nBits taken in turn from BitsCycle starting
\* at k
MakeChain(len, k, dt, skew, lastH) ==
    [i \in 1..len |->
        [nHeight     |-> i - 1,
         nTime       |-> 1000 + (i - 1) * dt + (IF i = len THEN skew ELSE 0),
         nMedianTime |-> 1000 + (IF i > 6 THEN i - 6 ELSE 0) * dt
                              + (IF i = len THEN skew ELSE 0),
         nBits       |-> BitsCycle[((i + k) % Len(BitsCycle)) + 1],
         nAlgo       |-> AlgoAt(i - 1, lastH)]]

\* compact values: zero, a mantissa shifted out (0x01003456), small
\* (0x01123456), negative (0x04923456), 0x1d00ffff, the ceilings 0x1d00ffff
\* << 0, 0x1e0fffff and 0x207fffff, just above a ceiling (0x1e100000),
\* 0x2000ffff, the largest that fits (0x220000ff), overflowed (0x2100ff00,
\* 0x23000001), negative and large (0x1d80ffff)
CompactInputs ==
    {0, 16790614, 17970262, 76690518, 486604799, 504365055, 504365056,
     536936447, 545259519, 570425599, 553713408, 587202561, 494993407}

\* hashes: zero, the targets of 0x1d00ffff and 0x1e0fffff, one above each,
\* and the largest hash
HashInputs ==
    {Uint256(0), SetCompact(486604799), SetCompact(504365055),
     Add(SetCompact(486604799), Uint256(1)),
     Add(SetCompact(504365055), Uint256(1)), Not(Uint256(0))}

DeltaTimes == {-40, 0, 81, 320, 1000}

NoChain == <<>>

(***************************************************************************)
(* The calls.                                                              *)
(***************************************************************************)
InitCheck ==
    /\ op \in {"CheckProofOfWork", "GetProofIncrement", "CheckMinWork"}
    /\ net \in Networks
    /\ chain = NoChain
    /\ nBits \in CompactInputs
    /\ IF op = "CheckProofOfWork"
       THEN algo \in Algos /\ hash \in HashInputs /\ nBase = 0 /\ deltaTime = 0
       ELSE IF op = "GetProofIncrement"
       THEN /\ net = MAIN /\ algo = ALGO_SCRYPT /\ hash = Uint256(0)
            /\ nBase \in CompactInputs /\ deltaTime = 0
       ELSE /\ algo = ALGO_SCRYPT /\ hash = Uint256(0)
            /\ nBase \in CompactInputs /\ deltaTime \in DeltaTimes
    /\ pc = "call"
    /\ ret = <<>>

InitV1 ==
    /\ op = "GetNextWorkRequiredV1"
    /\ net \in Networks
    /\ algo \in Algos
    /\ \E len \in 0..MaxChainLen, k \in 0..(Len(BitsCycle) - 1),
          dt \in Spacings, skew \in Skews :
          chain = MakeChain(len, k, dt, skew, len - 1)
    /\ hash = Uint256(0) /\ nBits = 0 /\ nBase = 0 /\ deltaTime = 0
    /\ pc = "call"
    /\ ret = <<>>

InitV2 ==
    /\ op = "GetNextWorkRequiredV2"
    /\ net \in Networks
    /\ algo \in Algos
    /\ \E len \in 0..MaxChainLen, k \in 0..(Len(BitsCycle) - 1),
          dt \in Spacings, skew \in Skews :
          \E lastH \in {-1, 1} \cup {len - 1 - g : g \in 0..MaxGap} :
             chain = MakeChain(len, k, dt, skew, lastH)
    /\ hash = Uint256(0) /\ nBits = 0 /\ nBase = 0 /\ deltaTime = 0
    /\ pc = "call"
    /\ ret = <<>>

InitDispatch ==
    /\ op = "GetNextWorkRequired"
    /\ net \in Networks
    /\ algo \in Algos
    /\ \E len \in 0..MaxChainLen, k \in 0..(Len(BitsCycle) - 1), dt \in Spacings :
          \E lastH \in {1, len - 1} :
             chain = MakeChain(len, k, dt, 0, lastH)
    /\ hash = Uint256(0) /\ nBits = 0 /\ nBase = 0 /\ deltaTime = 0
    /\ pc = "call"
    /\ ret = <<>>

Init == InitCheck \/ InitV1 \/ InitV2 \/ InitDispatch

inputs == <<op, net, chain, algo, hash, nBits, nBase, deltaTime>>

\* a call that ends with outcome o
Ends(o) ==
    /\ pc' = o.end
    /\ ret' = IF o.end \in {"returned", "no_return"} THEN <<o.value>> ELSE <<>>
    /\ UNCHANGED inputs

CallCheckProofOfWork ==
    /\ pc = "call" /\ op = "CheckProofOfWork"
    /\ Ends(Returned(CheckProofOfWork(hash, nBits, algo)))

\* GetProofIncrement(nBits), then GetProofIncrement(nBase)
CallGetProofIncrement ==
    /\ pc = "call" /\ op = "GetProofIncrement"
    /\ ret' = Append(ret, GetProofIncrement(IF ret = <<>> THEN nBits ELSE nBase))
    /\ pc' = IF ret = <<>> THEN "call" ELSE "returned"
    /\ UNCHANGED inputs

CallCheckMinWork ==
    /\ pc = "call" /\ op = "CheckMinWork"
    /\ Ends(Returned(CheckMinWork(nBits, nBase, deltaTime)))

CallGetNextWorkRequiredV1 ==
    /\ pc = "call" /\ op = "GetNextWorkRequiredV1"
    /\ \E o \in GetNextWorkRequiredV1(Len(chain), algo) : Ends(o)

CallGetNextWorkRequiredV2 ==
    /\ pc = "call" /\ op = "GetNextWorkRequiredV2"
    /\ \E o \in GetNextWorkRequiredV2(Len(chain), algo) : Ends(o)

CallGetNextWorkRequired ==
    /\ pc = "call" /\ op = "GetNextWorkRequired"
    /\ \E o \in GetNextWorkRequired(Len(chain), algo) : Ends(o)

NextCheck == CallCheckProofOfWork \/ CallGetProofIncrement \/ CallCheckMinWork

NextV1 == CallGetNextWorkRequiredV1

NextV2 == CallGetNextWorkRequiredV2

NextDispatch == CallGetNextWorkRequired

Next == NextCheck \/ NextV1 \/ NextV2 \/ NextDispatch

Spec == Init /\ [][Next]_vars

SpecCheck == InitCheck /\ [][NextCheck]_vars

SpecV1 == InitV1 /\ [][NextV1]_vars

SpecV2 == InitV2 /\ [][NextV2]_vars

SpecDispatch == InitDispatch /\ [][NextDispatch]_vars

(***************************************************************************)
(* Properties.                                                             *)
(***************************************************************************)
\* the call of f has ended with a return statement
Done(f) == op = f /\ pc = "returned"

\* the call of f has ended, in whatever way
Ended(f) == op = f /\ pc # "call"

\* the ceiling as a compact value
CeilingBits == GetCompact(ProofOfWorkLimit(algo))

\* the smaller of two targets
Min256(x, y) == IF LessEq(x, y) THEN x ELSE y

\* the previous block
Last == chain[Len(chain)]

\* V1's retarget interval for the block after the previous one, as the
\* claims state it: timespan / spacing from INFLATION_FIX_HEIGHT on, and
\* five times the timespan over half the spacing before
ClaimInterval ==
    IF Last.nHeight + 1 >= INFLATION_FIX_HEIGHT
    THEN TargetTimespan \div TargetSpacing
    ELSE (TargetTimespan * 5) \div (TargetSpacing \div 2)

\* the next block's height is not on an interval boundary
OffBoundary == chain # <<>> /\ (Last.nHeight + 1) % ClaimInterval # 0

\* ---------------------------------------------------------------- C1
\* C1 as stated: whatever the chain, the algorithm and the network, the
\* target decoded from what GetNextWorkRequiredV1 returns is at most
\* ProofOfWorkLimit(algo).
C1_AlwaysBelowCeiling ==
    Done("GetNextWorkRequiredV1") =>
        LessEq(SetCompact(ret[1]), ProofOfWorkLimit(algo))

\* C1 amended: the target decoded from what GetNextWorkRequiredV1 returns
\* is at most ProofOfWorkLimit(algo) on TESTNET, at genesis and whenever a
\* retarget fires; off an interval boundary it is so provided the previous
\* block's recorded nBits, which is what is returned, decodes to at most
\* that ceiling.
C1_BelowCeilingUnlessCarried ==
    Done("GetNextWorkRequiredV1") =>
        \/ LessEq(SetCompact(ret[1]), ProofOfWorkLimit(algo))
        \/ /\ net # TESTNET
           /\ OffBoundary
           /\ Greater(SetCompact(Last.nBits), ProofOfWorkLimit(algo))

\* a retarget fired on a slow window from the ceiling itself and was cut
\* down to the ceiling
C1_Witness ==
    /\ Done("GetNextWorkRequiredV1")
    /\ net = MAIN /\ algo = ALGO_SCRYPT
    /\ Len(chain) = INFLATION_FIX_HEIGHT
    /\ Last.nBits = 504365055
    /\ Last.nTime - chain[Len(chain) - 2].nTime > TargetTimespan
    /\ ret[1] = CeilingBits

\* ---------------------------------------------------------------- C2
\* the value V2 computes before the final cut to the ceiling
V2Computed ==
    LET pindexPrevAlgo == GetLastBlockIndexForAlgo(Len(chain), algo)
    IN  V2PerAlgo(V2Global(pindexPrevAlgo,
                           V2LimitTimespan(Len(chain), V2First(Len(chain)))),
                  V2Adjustments(Len(chain), pindexPrevAlgo))

\* V2 ran its retarget: the window and a block of the algorithm exist
V2Retargets ==
    /\ Len(chain) > NUM_ALGOS * nAveragingInterval
    /\ \E i \in 1..Len(chain) : chain[i].nAlgo = algo

\* C2: whatever the chain and the algorithm, the target decoded from what
\* GetNextWorkRequiredV2 returns is at most ProofOfWorkLimit(algo), also
\* when a multiplication wrapped around 2^256.
C2_BelowCeiling ==
    Done("GetNextWorkRequiredV2") =>
        LessEq(SetCompact(ret[1]), ProofOfWorkLimit(algo))

\* the loosening loop ran, and what it computed lies above the ceiling
C2_Witness ==
    /\ Done("GetNextWorkRequiredV2")
    /\ V2Retargets
    /\ Last.nHeight - chain[GetLastBlockIndexForAlgo(Len(chain), algo)].nHeight
           > NUM_ALGOS - 1
    /\ Greater(V2Computed, ProofOfWorkLimit(algo))
    /\ ret[1] = CeilingBits

\* ---------------------------------------------------------------- C3
\* nBits passes the range check of CheckProofOfWork
InRange ==
    /\ (nBits \div 8388608) % 2 = 0
    /\ ~CompactOverflow(nBits)
    /\ ~IsZero(SetCompact(nBits))
    /\ LessEq(SetCompact(nBits), ProofOfWorkLimit(algo))

\* C3: CheckProofOfWork returns true exactly when nBits decodes to a target
\* that is not negative, not overflowed, not zero and not above
\* ProofOfWorkLimit(algo), and hash is at most that target; so hash 0 is
\* accepted for every nBits in range.
C3_ExactlyInRangeAndBelowTarget ==
    Done("CheckProofOfWork") =>
        /\ ret[1] = (InRange /\ LessEq(hash, SetCompact(nBits)))
        /\ (IsZero(hash) /\ InRange) => ret[1] = TRUE

\* hash 0 is accepted against 0x1d00ffff
C3_Witness ==
    /\ Done("CheckProofOfWork")
    /\ IsZero(hash) /\ nBits = 486604799
    /\ ret[1] = TRUE

\* ---------------------------------------------------------------- C4
\* C4 as stated: on every network and for every height of the previous
\* block GetNextWorkRequired takes one branch and returns: the fixed target
\* on TESTNET, V1's result below V3_FORK, V2's result from V3_FORK on.
C4_TotalAndRoutedByHeight ==
    (Ended("GetNextWorkRequired") /\ chain # <<>>) =>
        /\ pc = "returned"
        /\ IF net = TESTNET THEN ret[1] = TestnetFixedBits
           ELSE IF Last.nHeight < V3_FORK
           THEN Returned(ret[1]) \in GetNextWorkRequiredV1(Len(chain), algo)
           ELSE Returned(ret[1]) \in GetNextWorkRequiredV2(Len(chain), algo)

\* ---------------------------------------------------------------- C5
\* C5 as stated: with deltaTime = 0, CheckMinWork returns true exactly when
\* the target of nBits is at most the target of nBase.
C5_ExactlyBelowBase ==
    (Done("CheckMinWork") /\ deltaTime = 0) =>
        ret[1] = LessEq(SetCompact(nBits), SetCompact(nBase))

\* C5 amended: with deltaTime = 0, CheckMinWork returns true exactly when
\* nBits decodes without overflow and its target is at most the smaller of
\* the target of nBase and ProofOfWorkLimit(ALGO_SCRYPT).
C5_ExactlyBelowBaseAndCeiling ==
    (Done("CheckMinWork") /\ deltaTime = 0) =>
        ret[1] = (/\ ~CompactOverflow(nBits)
                  /\ LessEq(SetCompact(nBits),
                            Min256(SetCompact(nBase),
                                   ProofOfWorkLimit(ALGO_SCRYPT))))

\* a claimed target at most the base target is refused because the base
\* lies above the ceiling
C5_Witness ==
    /\ Done("CheckMinWork") /\ deltaTime = 0
    /\ ~CompactOverflow(nBits)
    /\ LessEq(SetCompact(nBits), SetCompact(nBase))
    /\ Greater(SetCompact(nBase), ProofOfWorkLimit(ALGO_SCRYPT))
    /\ ret[1] = FALSE

\* ---------------------------------------------------------------- C6
\* a compact value that decodes to a usable target
ValidBits(c) ==
    /\ (c \div 8388608) % 2 = 0
    /\ ~CompactOverflow(c)
    /\ ~IsZero(SetCompact(c))

\* C6 as stated: for any two compact values a and b with target(a) <=
\* target(b), GetProofIncrement(a) >= GetProofIncrement(b), the increment
\* of a negative, overflowed or zero value being 0.
C6_Monotone ==
    Done("GetProofIncrement") =>
        (LessEq(SetCompact(nBits), SetCompact(nBase)) => LessEq(ret[2], ret[1]))

\* C6 amended: for any two compact values a and b that both decode to a
\* target that is not negative, not overflowed and not zero, target(a) <=
\* target(b) implies GetProofIncrement(a) >= GetProofIncrement(b); a value
\* that decodes negative, overflowed or zero has increment 0.
C6_MonotoneOnValid ==
    Done("GetProofIncrement") =>
        /\ (ValidBits(nBits) /\ ValidBits(nBase)
              /\ LessEq(SetCompact(nBits), SetCompact(nBase)))
           => LessEq(ret[2], ret[1])
        /\ ~ValidBits(nBits) => IsZero(ret[1])
        /\ ~ValidBits(nBase) => IsZero(ret[2])

\* two usable targets, the second the larger, and the increment fell
C6_Witness ==
    /\ Done("GetProofIncrement")
    /\ ValidBits(nBits) /\ ValidBits(nBase)
    /\ Less(SetCompact(nBits), SetCompact(nBase))
    /\ Less(ret[2], ret[1])

\* ---------------------------------------------------------------- C7
\* C7: GetNextWorkRequiredV2 returns the compact ceiling of the algorithm
\* whenever the previous block has fewer than NUM_ALGOS * 10 ancestors or
\* no block up to it was mined with the algorithm, and it does return.
C7_CeilingWithoutHistory ==
    (/\ Ended("GetNextWorkRequiredV2")
     /\ \/ Len(chain) - 1 < NUM_ALGOS * 10
        \/ \A i \in 1..Len(chain) : chain[i].nAlgo # algo)
    => (pc = "returned" /\ ret = <<CeilingBits>>)

\* one ancestor short of the window, a block of the algorithm at hand whose
\* recorded target is not the ceiling
C7_Witness ==
    /\ Done("GetNextWorkRequiredV2")
    /\ Len(chain) = NUM_ALGOS * 10
    /\ GetLastBlockIndexForAlgo(Len(chain), algo) # NULL
    /\ chain[GetLastBlockIndexForAlgo(Len(chain), algo)].nBits # CeilingBits
    /\ ret = <<CeilingBits>>

\* ---------------------------------------------------------------- C8
\* C8 as stated: with no previous block GetNextWorkRequiredV1 returns the
\* compact ceiling of the algorithm and reaches no error state.
C8_GenesisReturnsCeiling ==
    (Ended("GetNextWorkRequiredV1") /\ chain = <<>>) =>
        (pc = "returned" /\ ret = <<CeilingBits>>)

\* ---------------------------------------------------------------- C9
\* C9 as stated: off an interval boundary GetNextWorkRequiredV1 returns the
\* previous block's nBits, bit for bit.
C9_CarriedForward ==
    (Ended("GetNextWorkRequiredV1") /\ OffBoundary) =>
        (pc = "returned" /\ ret = <<Last.nBits>>)

\* C9 amended: on a network other than TESTNET, off an interval boundary
\* GetNextWorkRequiredV1 returns the previous block's nBits, bit for bit,
\* whatever the timestamps and the rest of the chain.
C9_CarriedForwardOffTestnet ==
    (Ended("GetNextWorkRequiredV1") /\ OffBoundary /\ net # TESTNET) =>
        (pc = "returned" /\ ret = <<Last.nBits>>)

\* half way to the first retarget, a recorded target that is not the
\* ceiling is returned as it is
C9_Witness ==
    /\ Done("GetNextWorkRequiredV1")
    /\ net = MAIN
    /\ Len(chain) = 10
    /\ Last.nBits # CeilingBits
    /\ ret = <<Last.nBits>>

\* ---------------------------------------------------------------- C10
\* the globally retargeted target
V2GlobalValue ==
    V2Global(GetLastBlockIndexForAlgo(Len(chain), algo),
             V2LimitTimespan(Len(chain), V2First(Len(chain))))

\* nAdjustments, as the claim gives it
ClaimAdjustments ==
    chain[GetLastBlockIndexForAlgo(Len(chain), algo)].nHeight - Last.nHeight
        + NUM_ALGOS - 1

\* C10 as stated: when nAdjustments is negative the returned target is at
\* least min(globally retargeted target, ceiling), to the precision of the
\* compact encoding, so that no turn of the loosening loop wrapped into a
\* harder target; when nAdjustments is 0 the globally retargeted value is
\* returned, cut to the ceiling.
C10_LoosenNeverHardens ==
    (Done("GetNextWorkRequiredV2") /\ V2Retargets) =>
        /\ ClaimAdjustments < 0 =>
              LessEq(SetCompact(GetCompact(
                         Min256(V2GlobalValue, ProofOfWorkLimit(algo)))),
                     SetCompact(ret[1]))
        /\ ClaimAdjustments = 0 =>
              ret[1] = GetCompact(Min256(V2GlobalValue, ProofOfWorkLimit(algo)))

====
